---- MODULE Spec2Model ----
(***************************************************************************)
(* Model of ml-sentiment-ops: the /predict handler of                      *)
(* src/api/main_simple.py (rule-based scorer, truncation, batch assembly)  *)
(* and the module-level counters of src/monitoring/metrics_simple.py.      *)
(*                                                                         *)
(* Numbers.  Confidences are fixed-point: a drawn confidence is an integer *)
(* number of 1e-5, a returned (4-digit rounded) confidence an integer      *)
(* number of 1e-4.  The clock counts steps of TickMicros microseconds; a   *)
(* formatted mean is an integer number of milliseconds (three decimals of  *)
(* a second).                                                              *)
(***************************************************************************)
EXTENDS Integers, Sequences, FiniteSets

VARIABLES
    \* ---- /predict handler (main_simple.py) ----
    ppc,            \* position of the handler: "idle" or "loop"
    texts,          \* request.texts of the request being handled
    idx,            \* number of texts the for loop has consumed
    predictions,    \* the local list predictions
    result,         \* the last value returned by predict, or NoResult
    served,         \* history: [requests, total]: calls returned, sum of their counts
    \* ---- metrics_simple.py module globals ----
    prediction_count,   \* dict {"success": n, "error": n}
    request_count,
    total_duration,
    \* ---- callers of the metrics module ----
    now,            \* time.time(), in clock steps
    pc,             \* pc[w]: position of worker w inside a metrics function
    loc,            \* loc[w]: the locals of worker w's current call
    hist            \* history of the metrics calls made so far

vars == <<ppc, texts, idx, predictions, result, served,
          prediction_count, request_count, total_duration, now, pc, loc, hist>>

predictVars == <<ppc, texts, idx, predictions, result, served>>
metricsVars == <<prediction_count, request_count, total_duration, now, pc, loc, hist>>

(***************************************************************************)
(* Bounds of the model and constants of the program.                       *)
(***************************************************************************)
MaxRequests == 2        \* predict calls per behaviour
NumWorkers == 2         \* callers of the metrics module
MaxOps == 4             \* metrics calls started per behaviour
MaxTime == 2            \* last clock value
MaxSize == 3            \* largest batch_size passed to track_prediction_request
TickMicros == 400       \* microseconds per clock step
RandScale == 65536      \* random.random() returns k / RandScale, 0 <= k < RandScale

MaxItems == 10          \* Field(..., max_items=10)
MinItems == 1           \* Field(..., min_items=1)
MaxDisplay == 100       \* text[:100] ... if len(text) > 100
HighLo == 85000         \* random.uniform(0.85, 0.99)
HighHi == 99000
LowLo == 50000          \* random.uniform(0.50, 0.75)
LowHi == 75000

Statuses == {"success", "error"}
Labels == {"POSITIVE", "NEGATIVE"}
NoResult == [count |-> -1]

(***************************************************************************)
(* Arithmetic helpers.                                                     *)
(***************************************************************************)
Max(a, b) == IF a >= b THEN a ELSE b

\* n / d rounded to the nearest integer, ties to the even one (n >= 0, d > 0):
\* the rounding of round(x, k), of '%.3f' and of a floating-point operation.
RoundHalfEven(n, d) ==
    LET q == n \div d
        r == n % d
    IN  IF 2 * r < d THEN q
        ELSE IF 2 * r > d THEN q + 1
        ELSE IF q % 2 = 0 THEN q ELSE q + 1

(***************************************************************************)
(* Texts: sequences of one-character strings.                              *)
(***************************************************************************)
UpperCase == <<"A", "B", "C", "D", "E", "F", "G", "H", "I", "J", "K", "L", "M",
               "N", "O", "P", "Q", "R", "S", "T", "U", "V", "W", "X", "Y", "Z">>
LowerCase == <<"a", "b", "c", "d", "e", "f", "g", "h", "i", "j", "k", "l", "m",
               "n", "o", "p", "q", "r", "s", "t", "u", "v", "w", "x", "y", "z">>

LowerChar(c) ==
    IF \E i \in 1..Len(UpperCase) : UpperCase[i] = c
    THEN LowerCase[CHOOSE i \in 1..Len(UpperCase) : UpperCase[i] = c]
    ELSE c

\* str.lower()
Lower(text) == [i \in 1..Len(text) |-> LowerChar(text[i])]

\* word in text
Contains(text, word) ==
    \E i \in 0..(Len(text) - Len(word)) : \A k \in 1..Len(word) : text[i + k] = word[k]

PositiveWords ==
    { <<"l", "o", "v", "e">>,
      <<"g", "r", "e", "a", "t">>,
      <<"a", "w", "e", "s", "o", "m", "e">>,
      <<"e", "x", "c", "e", "l", "l", "e", "n", "t">>,
      <<"a", "m", "a", "z", "i", "n", "g">>,
      <<"w", "o", "n", "d", "e", "r", "f", "u", "l">> }

NegativeWords ==
    { <<"h", "a", "t", "e">>,
      <<"t", "e", "r", "r", "i", "b", "l", "e">>,
      <<"a", "w", "f", "u", "l">>,
      <<"h", "o", "r", "r", "i", "b", "l", "e">>,
      <<"w", "o", "r", "s", "t">>,
      <<"b", "a", "d">> }

Ellipsis == <<".", ".", ".">>

\* text_lower = text.lower()
NormaliseIdentity(text) == text
Normalise(text) == Lower(text)

\* any(word in text_lower for word in [...])
HasPositive(text) ==
    LET text_lower == Normalise(text)
    IN  \E w \in PositiveWords : Contains(text_lower, w)
HasNegative(text) ==
    LET text_lower == Normalise(text)
    IN  \E w \in NegativeWords : Contains(text_lower, w)

\* The if / elif / else of the scorer: the positive test is made first.
ScoreBranchNegativeFirst(text) ==
    IF HasNegative(text) THEN "negative"
    ELSE IF HasPositive(text) THEN "positive"
    ELSE "fallback"
ScoreBranch(text) ==
    IF HasPositive(text) THEN "positive"
    ELSE IF HasNegative(text) THEN "negative"
    ELSE "fallback"

\* random.uniform(a, b) = a + (b - a) * random.random(), the product and the sum
\* rounded to the nearest representable value (here: the nearest 1e-5); r is the
\* numerator of random.random() over RandScale.
Uniform(a, b, r) == a + RoundHalfEven((b - a) * r, RandScale)

\* round(confidence, 4): from 1e-5 units to 1e-4 units.
Round4(x) == RoundHalfEven(x, 10)

\* round(processing_time, 3): from 1e-4 s to milliseconds.
Round3(x) == RoundHalfEven(x, 10)

\* text[:100] + "..." if len(text) > 100 else text
DisplayTextInclusive(text) ==
    IF Len(text) >= MaxDisplay THEN SubSeq(text, 1, MaxDisplay) \o Ellipsis ELSE text
DisplayText(text) ==
    IF Len(text) > MaxDisplay THEN SubSeq(text, 1, MaxDisplay) \o Ellipsis ELSE text

\* One iteration's dict: choice is the outcome random.choice would give, r the
\* outcome of random.random() inside random.uniform.
Verdict(text, choice, r) ==
    LET b == ScoreBranch(text)
        sentiment == IF b = "positive" THEN "POSITIVE"
                     ELSE IF b = "negative" THEN "NEGATIVE"
                     ELSE choice
        confidence == IF b = "fallback" THEN Uniform(LowLo, LowHi, r)
                      ELSE Uniform(HighLo, HighHi, r)
    IN  [text |-> DisplayText(text),
         sentiment |-> sentiment,
         confidence |-> Round4(confidence),
         model_version |-> "mock-model-v1"]

\* predictions.append(...)
PrependPrediction(preds, p) == <<p>> \o preds
AppendPrediction(preds, p) == Append(preds, p)

(***************************************************************************)
(* Inputs.                                                                 *)
(***************************************************************************)
Pad(n) == [i \in 1..n |-> "x"]

TLove == <<"I", " ", "L", "O", "V", "E", " ", "i", "t">>
TBad == <<"N", "o", "t", " ", "b", "a", "d">>
TBoth == <<"h", "a", "t", "e", " ", "l", "o", "v", "e">>
TOk == <<"o", "k">>
TEmpty == <<>>
TNear == <<"l", "o", "v", " ", "e">>
TExact == Pad(MaxDisplay)
TOver == Pad(MaxDisplay + 1)
TLongLove == Pad(MaxDisplay) \o <<"l", "o", "v", "e">>
TCutBad == Pad(MaxDisplay - 2) \o <<"b", "a", "d">>

Texts == {TLove, TBad, TBoth, TOk, TEmpty, TNear, TExact, TOver, TLongLove, TCutBad}

FullBatch == <<TLove, TBad, TBoth, TLongLove, TCutBad, TBad, TLove, TOver, TBoth, TLove>>

\* The validated requests: every batch of one or two texts, and one of MaxItems.
Batches ==
    { <<t>> : t \in Texts } \cup { <<s, t>> : s \in Texts, t \in Texts } \cup {FullBatch}

\* Outcomes of random.random(): the least, two next to the greatest, the greatest.
RandomSamples == {0, RandScale - 16, RandScale - 1}

\* Elapsed wall-clock time of a batch, in 1e-4 s.
ElapsedSamples == {0, 15}

Workers == 1..NumWorkers

NoLocals == [op |-> "none"]

\* What the callers have done so far: calls started (ops), size-1 success
\* recordings (unit) and other recordings (other), sizes recorded per status,
\* duration recordings entered, left and left by exception, and the sum of the
\* durations they measured.
NoHistory ==
    [ops |-> 0, unit |-> 0, other |-> 0, recorded |-> [s \in Statuses |-> 0],
     entered |-> 0, left |-> 0, raised |-> 0, durSum |-> 0]

(***************************************************************************)
(* Initial state: module import.                                           *)
(***************************************************************************)
Init ==
    /\ ppc = "idle"
    /\ texts = <<>>
    /\ idx = 0
    /\ predictions = <<>>
    /\ result = NoResult
    /\ served = [requests |-> 0, total |-> 0]
    /\ prediction_count = [s \in Statuses |-> 0]
    /\ request_count = 0
    /\ total_duration = 0
    /\ now = 0
    /\ pc = [w \in Workers |-> "idle"]
    /\ loc = [w \in Workers |-> NoLocals]
    /\ hist = NoHistory

(***************************************************************************)
(* predict(request)                                                        *)
(***************************************************************************)
\* start_time = time.time(); predictions = []
PredictStart ==
    /\ ppc = "idle"
    /\ served.requests < MaxRequests
    /\ \E batch \in Batches :
          /\ Len(batch) >= MinItems
          /\ Len(batch) <= MaxItems
          /\ texts' = batch
    /\ idx' = 0
    /\ predictions' = <<>>
    /\ result' = NoResult
    /\ ppc' = "loop"
    /\ UNCHANGED <<served, metricsVars>>

\* one iteration of: for text in request.texts
PredictStep ==
    /\ ppc = "loop"
    /\ idx < Len(texts)
    /\ \E choice \in Labels, r \in RandomSamples :
          predictions' = AppendPrediction(predictions, Verdict(texts[idx + 1], choice, r))
    /\ idx' = idx + 1
    /\ UNCHANGED <<ppc, texts, result, served, metricsVars>>

\* processing_time = ...; return {...}.  The handler calls nothing of the
\* metrics module.
PredictReturn ==
    /\ ppc = "loop"
    /\ idx = Len(texts)
    /\ \E e \in ElapsedSamples :
          result' = [predictions |-> predictions,
                     count |-> Len(predictions),
                     processing_time |-> Round3(e)]
    /\ served' = [requests |-> served.requests + 1,
                  total |-> served.total + Len(predictions)]
    /\ ppc' = "idle"
    /\ UNCHANGED <<texts, idx, predictions, metricsVars>>

PredictNext == PredictStart \/ PredictStep \/ PredictReturn

Spec == Init /\ [][PredictNext]_vars

(***************************************************************************)
(* metrics_simple.py.  A worker executes one function at a time; every     *)
(* read and every write of a module global is a step of its own.           *)
(***************************************************************************)
\* prediction_count[status] += batch_size
CountOverwrite(old, batch_size) == batch_size
CountAfter(old, batch_size) == old + batch_size

\* max(request_count, 1)
DivisorUnguarded(count) == count
Divisor(count) == Max(count, 1)

\* f"{avg_duration:.3f}" of avg_duration = total / divisor (divisor > 0), as a
\* number of milliseconds; total is a number of clock steps.
FormatMean(total, divisor) == RoundHalfEven(total * TickMicros, divisor * 1000)

\* Recordings that are counted in request_count and not yet in total_duration.
OpenRecordings ==
    Cardinality({v \in Workers : pc[v] \in {"body", "tpd_total_load", "tpd_total_store"}})

RecordStates == {"tpr_store"}
DurationStates == {"tpd_count_load", "tpd_count_store", "body",
                   "tpd_total_load", "tpd_total_store"}
SnapshotStates == {"gm_count_load", "gm_success_load", "gm_error_load", "gm_return"}

\* time.time() advances.
Tick ==
    /\ now < MaxTime
    /\ now' = now + 1
    /\ UNCHANGED <<predictVars, prediction_count, request_count, total_duration,
                   pc, loc, hist>>

\* track_prediction_request(batch_size, status): read of prediction_count[status]
TPRLoad(w) ==
    /\ pc[w] = "idle"
    /\ hist.ops < MaxOps
    /\ \E batch_size \in 0..MaxSize, status \in Statuses :
          /\ loc' = [loc EXCEPT ![w] = [op |-> "record", batch_size |-> batch_size,
                                        status |-> status,
                                        old |-> prediction_count[status]]]
          /\ hist' = [hist EXCEPT
                        !.ops = @ + 1,
                        !.unit = IF batch_size = 1 /\ status = "success" THEN @ + 1 ELSE @,
                        !.other = IF batch_size = 1 /\ status = "success" THEN @ ELSE @ + 1,
                        !.recorded[status] = @ + batch_size]
    /\ pc' = [pc EXCEPT ![w] = "tpr_store"]
    /\ UNCHANGED <<predictVars, prediction_count, request_count, total_duration, now>>

\* ... and the write of the sum back into the dict
TPRStore(w) ==
    /\ pc[w] = "tpr_store"
    /\ prediction_count' =
          [prediction_count EXCEPT
             ![loc[w].status] = CountAfter(loc[w].old, loc[w].batch_size)]
    /\ pc' = [pc EXCEPT ![w] = "idle"]
    /\ loc' = [loc EXCEPT ![w] = NoLocals]
    /\ UNCHANGED <<predictVars, request_count, total_duration, now, hist>>

\* with track_prediction_duration(): start_time = time.time()
TPDEnter(w) ==
    /\ pc[w] = "idle"
    /\ hist.ops < MaxOps
    /\ loc' = [loc EXCEPT ![w] = [op |-> "duration", start_time |-> now]]
    /\ hist' = [hist EXCEPT !.ops = @ + 1, !.entered = @ + 1]
    /\ pc' = [pc EXCEPT ![w] = "tpd_count_load"]
    /\ UNCHANGED <<predictVars, prediction_count, request_count, total_duration, now>>

\* request_count += 1: the read
TPDCountLoad(w) ==
    /\ pc[w] = "tpd_count_load"
    /\ loc' = [loc EXCEPT ![w] = [op |-> "duration", start_time |-> loc[w].start_time,
                                  old |-> request_count]]
    /\ pc' = [pc EXCEPT ![w] = "tpd_count_store"]
    /\ UNCHANGED <<predictVars, prediction_count, request_count, total_duration, now, hist>>

\* request_count += 1: the write; then yield hands control to the with body
TPDCountStore(w) ==
    /\ pc[w] = "tpd_count_store"
    /\ request_count' = loc[w].old + 1
    /\ loc' = [loc EXCEPT ![w] = [op |-> "duration", start_time |-> loc[w].start_time]]
    /\ pc' = [pc EXCEPT ![w] = "body"]
    /\ UNCHANGED <<predictVars, prediction_count, total_duration, now, hist>>

\* The with body ends, normally or by an exception; either way the finally
\* clause runs: duration = time.time() - start_time
TPDFinally(w) ==
    /\ pc[w] = "body"
    /\ \E raises \in BOOLEAN :
          /\ loc' = [loc EXCEPT ![w] = [op |-> "duration", raises |-> raises,
                                        duration |-> now - loc[w].start_time]]
          /\ hist' = [hist EXCEPT !.durSum = @ + (now - loc[w].start_time)]
    /\ pc' = [pc EXCEPT ![w] = "tpd_total_load"]
    /\ UNCHANGED <<predictVars, prediction_count, request_count, total_duration, now>>

\* total_duration += duration: the read
TPDTotalLoad(w) ==
    /\ pc[w] = "tpd_total_load"
    /\ loc' = [loc EXCEPT ![w] = [op |-> "duration", raises |-> loc[w].raises,
                                  duration |-> loc[w].duration,
                                  old |-> total_duration]]
    /\ pc' = [pc EXCEPT ![w] = "tpd_total_store"]
    /\ UNCHANGED <<predictVars, prediction_count, request_count, total_duration, now, hist>>

\* total_duration += duration: the write; the with statement is left, and an
\* exception of the body goes on to the caller
TPDTotalStore(w) ==
    /\ pc[w] = "tpd_total_store"
    /\ total_duration' = loc[w].old + loc[w].duration
    /\ hist' = [hist EXCEPT !.left = @ + 1,
                            !.raised = IF loc[w].raises THEN @ + 1 ELSE @]
    /\ pc' = [pc EXCEPT ![w] = "idle"]
    /\ loc' = [loc EXCEPT ![w] = NoLocals]
    /\ UNCHANGED <<predictVars, prediction_count, request_count, now>>

\* get_metrics(): total_duration / max(request_count, 1) reads total_duration ...
GMTotalLoad(w) ==
    /\ pc[w] = "idle"
    /\ hist.ops < MaxOps
    /\ loc' = [loc EXCEPT ![w] = [op |-> "metrics", total |-> total_duration]]
    /\ hist' = [hist EXCEPT !.ops = @ + 1]
    /\ pc' = [pc EXCEPT ![w] = "gm_count_load"]
    /\ UNCHANGED <<predictVars, prediction_count, request_count, total_duration, now>>

\* ... then request_count; the division raises ZeroDivisionError for a zero
\* divisor.  open notes how many recordings that counter holds whose duration
\* is not in the sum.
GMCountLoad(w) ==
    /\ pc[w] = "gm_count_load"
    /\ LET d == Divisor(request_count) IN
          /\ loc' = [loc EXCEPT ![w] =
                        [op |-> "metrics",
                         raises |-> (d = 0),
                         avg |-> IF d = 0 THEN 0 ELSE FormatMean(loc[w].total, d),
                         open |-> OpenRecordings]]
          /\ pc' = [pc EXCEPT ![w] = IF d = 0 THEN "gm_return" ELSE "gm_success_load"]
    /\ UNCHANGED <<predictVars, prediction_count, request_count, total_duration, now, hist>>

\* the f-string reads prediction_count['success'] ...
GMSuccessLoad(w) ==
    /\ pc[w] = "gm_success_load"
    /\ loc' = [loc EXCEPT ![w] = [op |-> "metrics", raises |-> FALSE,
                                  avg |-> loc[w].avg, open |-> loc[w].open,
                                  success |-> prediction_count["success"]]]
    /\ pc' = [pc EXCEPT ![w] = "gm_error_load"]
    /\ UNCHANGED <<predictVars, prediction_count, request_count, total_duration, now, hist>>

\* ... and prediction_count['error']
GMErrorLoad(w) ==
    /\ pc[w] = "gm_error_load"
    /\ loc' = [loc EXCEPT ![w] = [op |-> "metrics", raises |-> FALSE,
                                  avg |-> loc[w].avg, open |-> loc[w].open,
                                  success |-> loc[w].success,
                                  error |-> prediction_count["error"]]]
    /\ pc' = [pc EXCEPT ![w] = "gm_return"]
    /\ UNCHANGED <<predictVars, prediction_count, request_count, total_duration, now, hist>>

\* return of the document (or of the ZeroDivisionError)
GMReturn(w) ==
    /\ pc[w] = "gm_return"
    /\ pc' = [pc EXCEPT ![w] = "idle"]
    /\ loc' = [loc EXCEPT ![w] = NoLocals]
    /\ UNCHANGED <<predictVars, prediction_count, request_count, total_duration, now, hist>>

\* No other worker is inside a statement of the metrics module (it is outside
\* the module, or in the body of its with statement).
Quiet(w) == \A v \in Workers \ {w} : pc[v] \in {"idle", "body"}

\* Callers that run the module's statements one at a time.
SeqNext ==
    \/ Tick
    \/ \E w \in Workers : Quiet(w) /\ TPRLoad(w)
    \/ \E w \in Workers : Quiet(w) /\ TPRStore(w)
    \/ \E w \in Workers : Quiet(w) /\ TPDEnter(w)
    \/ \E w \in Workers : Quiet(w) /\ TPDCountLoad(w)
    \/ \E w \in Workers : Quiet(w) /\ TPDCountStore(w)
    \/ \E w \in Workers : Quiet(w) /\ TPDFinally(w)
    \/ \E w \in Workers : Quiet(w) /\ TPDTotalLoad(w)
    \/ \E w \in Workers : Quiet(w) /\ TPDTotalStore(w)
    \/ \E w \in Workers : Quiet(w) /\ GMTotalLoad(w)
    \/ \E w \in Workers : Quiet(w) /\ GMCountLoad(w)
    \/ \E w \in Workers : Quiet(w) /\ GMSuccessLoad(w)
    \/ \E w \in Workers : Quiet(w) /\ GMErrorLoad(w)
    \/ \E w \in Workers : Quiet(w) /\ GMReturn(w)

SpecSeq == Init /\ [][SeqNext]_vars

\* Callers on concurrent threads: any worker may take its next step.
ConcNext ==
    \/ Tick
    \/ \E w \in Workers :
          \/ TPRLoad(w) \/ TPRStore(w)
          \/ TPDEnter(w) \/ TPDCountLoad(w) \/ TPDCountStore(w)
          \/ TPDFinally(w) \/ TPDTotalLoad(w) \/ TPDTotalStore(w)
          \/ GMTotalLoad(w) \/ GMCountLoad(w) \/ GMSuccessLoad(w)
          \/ GMErrorLoad(w) \/ GMReturn(w)

SpecConc == Init /\ [][ConcNext]_vars

(***************************************************************************)
(* Properties.                                                             *)
(***************************************************************************)
\* The indicator sets as the specification states them: substrings of the
\* case-normalised text.
Indicators ==
    [t \in Texts |->
        LET lowered == Lower(t)
        IN  [positive |-> \E w \in PositiveWords : Contains(lowered, w),
             negative |-> \E w \in NegativeWords : Contains(lowered, w)]]
MentionsPositive(text) == Indicators[text].positive
MentionsNegative(text) == Indicators[text].negative

NoRecordInFlight == \A w \in Workers : pc[w] \notin RecordStates
NoDurationInFlight == \A w \in Workers : pc[w] \notin DurationStates

\* C1: when every track_prediction_request call made so far was a size-1
\* success recording and all of them have returned, the success counter equals
\* the number of those calls (no update is lost under concurrency).
C1NoLostUpdate ==
    (NoRecordInFlight /\ hist.other = 0) => prediction_count["success"] = hist.unit

\* C2: the success counter equals the sum of the counts of the batches predict
\* has returned, and the error counter is zero (one metrics update per call).
C2OneUpdatePerBatch ==
    /\ prediction_count["success"] = served.total
    /\ prediction_count["error"] = 0

\* C3 as stated: a text with both kinds of indicator, and a text with neither,
\* gets a confidence of the low range (returned value between 0.50 and 0.75),
\* never one of the high range.
C3FallbackAsStated ==
    \A i \in 1..Len(predictions) :
        (MentionsPositive(texts[i]) = MentionsNegative(texts[i]))
            => predictions[i].confidence \in 5000..7500

\* C3 amended: a text with neither kind of indicator gets a label that is a
\* free choice (each label can be the next verdict) and a returned confidence
\* between 0.50 and 0.75; a text with both kinds is scored by the positive
\* branch: POSITIVE with a returned confidence between 0.85 and 0.99.
C3Fallback ==
    /\ \A i \in 1..Len(predictions) :
          /\ (~MentionsPositive(texts[i]) /\ ~MentionsNegative(texts[i]))
                => /\ predictions[i].sentiment \in Labels
                   /\ predictions[i].confidence \in 5000..7500
          /\ (MentionsPositive(texts[i]) /\ MentionsNegative(texts[i]))
                => /\ predictions[i].sentiment = "POSITIVE"
                   /\ predictions[i].confidence \in 8500..9900
    /\ (/\ ppc = "loop"
        /\ idx < Len(texts)
        /\ ~MentionsPositive(texts[idx + 1])
        /\ ~MentionsNegative(texts[idx + 1]))
          => \A l \in Labels :
                \E choice \in Labels, r \in RandomSamples :
                    Verdict(texts[idx + 1], choice, r).sentiment = l

\* A batch in which a text without indicators was labelled NEGATIVE and a text
\* with both kinds of indicator was scored.
C3Witness ==
    \E i, j \in 1..Len(predictions) :
        /\ ~MentionsPositive(texts[i]) /\ ~MentionsNegative(texts[i])
        /\ predictions[i].sentiment = "NEGATIVE"
        /\ MentionsPositive(texts[j]) /\ MentionsNegative(texts[j])
        /\ predictions[j].sentiment = "POSITIVE"

\* C4 as stated: positive-only text yields POSITIVE, negative-only text yields
\* NEGATIVE, each with a returned confidence c, 0.85 <= c < 0.99.
C4HighRangeAsStated ==
    \A i \in 1..Len(predictions) :
        /\ (MentionsPositive(texts[i]) /\ ~MentionsNegative(texts[i]))
              => /\ predictions[i].sentiment = "POSITIVE"
                 /\ predictions[i].confidence >= 8500
                 /\ predictions[i].confidence < 9900
        /\ (MentionsNegative(texts[i]) /\ ~MentionsPositive(texts[i]))
              => /\ predictions[i].sentiment = "NEGATIVE"
                 /\ predictions[i].confidence >= 8500
                 /\ predictions[i].confidence < 9900

\* C4 amended: the same with the upper end included, 0.85 <= c <= 0.99.
C4HighRange ==
    \A i \in 1..Len(predictions) :
        /\ (MentionsPositive(texts[i]) /\ ~MentionsNegative(texts[i]))
              => /\ predictions[i].sentiment = "POSITIVE"
                 /\ predictions[i].confidence >= 8500
                 /\ predictions[i].confidence <= 9900
        /\ (MentionsNegative(texts[i]) /\ ~MentionsPositive(texts[i]))
              => /\ predictions[i].sentiment = "NEGATIVE"
                 /\ predictions[i].confidence >= 8500
                 /\ predictions[i].confidence <= 9900

\* A positive-only text in capitals scored POSITIVE at 0.99 next to a
\* negative-only text scored NEGATIVE.
C4Witness ==
    \E i, j \in 1..Len(predictions) :
        /\ MentionsPositive(texts[i]) /\ ~MentionsNegative(texts[i])
        /\ texts[i] # Lower(texts[i])
        /\ predictions[i].sentiment = "POSITIVE"
        /\ predictions[i].confidence = 9900
        /\ MentionsNegative(texts[j]) /\ ~MentionsPositive(texts[j])
        /\ predictions[j].sentiment = "NEGATIVE"

\* The verdict p belongs to the input text t: it shows t (whole, or its first
\* 100 characters) and carries the label t's indicators force.
VerdictOf(p, t) ==
    /\ Len(t) <= 100 => p.text = t
    /\ Len(t) > 100 => SubSeq(p.text, 1, 100) = SubSeq(t, 1, 100)
    /\ MentionsPositive(t) => p.sentiment = "POSITIVE"
    /\ (MentionsNegative(t) /\ ~MentionsPositive(t)) => p.sentiment = "NEGATIVE"

\* C5: a returned result has count and number of predictions equal to the
\* number of input texts (1 to 10), and predictions[i] is the verdict of
\* input[i] for every i.
C5CountAndOrder ==
    result # NoResult
        => /\ Len(texts) \in 1..10
           /\ result.count = Len(texts)
           /\ Len(result.predictions) = Len(texts)
           /\ \A i \in 1..Len(texts) : VerdictOf(result.predictions[i], texts[i])

\* A returned batch of ten texts whose first two differ.
C5Witness ==
    /\ result # NoResult
    /\ result.count = 10
    /\ texts[1] # texts[2]
    /\ result.predictions[1].text # result.predictions[2].text

\* C6: the displayed text of an input longer than 100 characters is its first
\* 100 characters followed by "...", 103 characters in all; the displayed text
\* of an input of at most 100 characters is the input.
C6Truncation ==
    \A i \in 1..Len(predictions) :
        IF Len(texts[i]) > 100
        THEN /\ Len(predictions[i].text) = 103
             /\ SubSeq(predictions[i].text, 1, 100) = SubSeq(texts[i], 1, 100)
             /\ SubSeq(predictions[i].text, 101, 103) = <<".", ".", ".">>
        ELSE predictions[i].text = texts[i]

\* A batch with a text of exactly 100 characters shown unchanged and a text of
\* 101 characters shown cut.
C6Witness ==
    \E i, j \in 1..Len(predictions) :
        /\ Len(texts[i]) = 100
        /\ predictions[i].text = texts[i]
        /\ Len(texts[j]) = 101
        /\ Len(predictions[j].text) = 103

\* C7: a snapshot never uses a request counter that holds a recording whose
\* duration is not in the sum, and when no recording is in progress the request
\* counter is the number of recordings made and the sum is the sum of their
\* durations.
C7DurationAtomic ==
    /\ \A w \in Workers : pc[w] = "gm_return" => loc[w].open = 0
    /\ NoDurationInFlight
          => /\ request_count = hist.entered
             /\ total_duration = hist.durSum

\* C8 as stated: get_metrics raises nothing; before anything is recorded it
\* reports 0, 0 and a mean of 0; with a non-zero request counter the reported
\* mean is exactly the sum divided by the counter.
C8SnapshotAsStated ==
    \A w \in Workers :
        pc[w] = "gm_return"
            => /\ ~loc[w].raises
               /\ hist.ops = 1 => (loc[w].success = 0 /\ loc[w].error = 0 /\ loc[w].avg = 0)
               /\ request_count # 0
                     => loc[w].avg * 1000 * request_count = total_duration * TickMicros

\* C8 amended: the same, the reported mean being the sum divided by the counter
\* rounded to three decimals (the nearest millisecond).
C8Snapshot ==
    \A w \in Workers :
        pc[w] = "gm_return"
            => /\ ~loc[w].raises
               /\ hist.ops = 1 => (loc[w].success = 0 /\ loc[w].error = 0 /\ loc[w].avg = 0)
               /\ request_count = 0 => loc[w].avg = 0
               /\ request_count # 0
                     => /\ 2 * loc[w].avg * 1000 * request_count
                             <= 2 * total_duration * TickMicros + 1000 * request_count
                        /\ 2 * loc[w].avg * 1000 * request_count
                             >= 2 * total_duration * TickMicros - 1000 * request_count

\* A snapshot of a state with recordings whose mean is not a whole number of
\* milliseconds and is reported as a non-zero one.
C8Witness ==
    \E w \in Workers :
        /\ pc[w] = "gm_return"
        /\ request_count > 0
        /\ loc[w].avg > 0
        /\ loc[w].avg * 1000 * request_count # total_duration * TickMicros

\* get_metrics takes a step.
SnapshotStep ==
    \E w \in Workers :
        /\ pc'[w] # pc[w]
        /\ (pc[w] \in SnapshotStates \/ pc'[w] \in SnapshotStates)

\* C9: with the recordings made one after another, each status counter equals
\* the sum of the sizes recorded with that status; no step decreases a counter
\* and no step of get_metrics changes one.
C9CountersAccumulate ==
    /\ [](NoRecordInFlight => \A s \in Statuses : prediction_count[s] = hist.recorded[s])
    /\ [][\A s \in Statuses : prediction_count'[s] >= prediction_count[s]]_vars
    /\ [][SnapshotStep => prediction_count' = prediction_count]_vars

\* Sizes 3 and 2 recorded as success: success = 5, error = 0.
C9Witness ==
    /\ NoRecordInFlight
    /\ hist.other = 2
    /\ hist.unit = 0
    /\ hist.recorded["success"] = 5
    /\ prediction_count["success"] = 5
    /\ prediction_count["error"] = 0

\* C10: once a recording has ended by an exception and no recording is in
\* progress, the request counter is the number of recordings entered and the
\* sum holds the duration of each of them once.
C10ExceptionStillRecorded ==
    (NoDurationInFlight /\ hist.raised > 0)
        => /\ request_count = hist.entered
           /\ total_duration = hist.durSum

====
